---- MODULE Spec2Model ----
(***************************************************************************)
(* DocFlow-Lite: the PDF synthesis and deduplicated-merge engine.          *)
(*                                                                         *)
(* Byte buffers are modelled as strings, one character per byte, so that   *)
(* offsets, lengths and the marker searches of the source are computed on  *)
(* the bytes themselves.  Positions are 0-based as in the source.          *)
(***************************************************************************)
EXTENDS Integers, Sequences, FiniteSets, TLC

(***************************************************************************)
(* JavaScript String methods used by the source.                           *)
(***************************************************************************)
Min(S) == CHOOSE x \in S : \A y \in S : x <= y
Max(S) == CHOOSE x \in S : \A y \in S : x >= y

\* s has pat at 0-based index i
StartsAt(s, pat, i) ==
    /\ i >= 0
    /\ i + Len(pat) <= Len(s)
    /\ SubSeq(s, i + 1, i + Len(pat)) = pat

\* the searches go block by block, nearest block first
RECURSIVE indexOf(_, _, _)
indexOf(s, pat, from) ==
    LET last == Len(s) - Len(pat)
        hi == IF from + 63 < last THEN from + 63 ELSE last
        M  == {i \in from..hi : StartsAt(s, pat, i)}
    IN  IF from > last THEN -1
        ELSE IF M # {} THEN Min(M)
        ELSE indexOf(s, pat, hi + 1)

RECURSIVE lastIndexOf(_, _, _)
lastIndexOf(s, pat, from) ==
    LET lo == IF from - 63 > 0 THEN from - 63 ELSE 0
        M  == {i \in lo..from : StartsAt(s, pat, i)}
    IN  IF from < 0 THEN -1
        ELSE IF M # {} THEN Max(M)
        ELSE lastIndexOf(s, pat, lo - 1)

includes(s, pat) == indexOf(s, pat, 0) # -1

startsWith(s, pat) == StartsAt(s, pat, 0)

substring(s, a, b) == SubSeq(s, a + 1, b)

RECURSIVE padStart(_, _, _)
padStart(str, n, ch) == IF Len(str) >= n THEN str ELSE padStart(ch \o str, n, ch)

RECURSIVE join(_, _)
join(parts, sep) ==
    IF parts = <<>> THEN ""
    ELSE IF Len(parts) = 1 THEN parts[1]
    ELSE parts[1] \o sep \o join(Tail(parts), sep)

RECURSIVE concat(_)
concat(parts) == IF parts = <<>> THEN "" ELSE parts[1] \o concat(Tail(parts))

(***************************************************************************)
(* mergeImagesToPDF: the N-page builder.  An image is the decoded raster   *)
(* [width, height] with bytes, the JPEG re-encoding canvas.toDataURL gave. *)
(***************************************************************************)
\* the text up to the Kids array
PdfPrologue ==
    "%PDF-1.7\n1 0 obj\n<< /Type /Catalog /Pages 2 0 R >>\nendobj\n2 0 obj\n<< /Type /Pages /Kids ["

RECURSIVE KidsRefs(_, _)
KidsRefs(i, n) ==
    IF i >= n THEN "" ELSE ToString(3 + i * 3) \o " 0 R " \o KidsRefs(i + 1, n)

\* a slip that counts objects where pages are meant
PageTreeEndCountsObjects(n) == "] /Count " \o ToString(3 * n) \o " >>\nendobj\n"

PageTreeEnd(n) == "] /Count " \o ToString(n) \o " >>\nendobj\n"

PageObject(objectNumber, i, img) ==
    ToString(objectNumber) \o " 0 obj\n<< /Type /Page /Parent 2 0 R /MediaBox [0 0 "
    \o ToString(img.width) \o " " \o ToString(img.height)
    \o "] /Resources << /XObject << /Image" \o ToString(i) \o " "
    \o ToString(objectNumber + 1) \o " 0 R >> >> /Contents "
    \o ToString(objectNumber + 2) \o " 0 R >>\nendobj\n"

\* a slip that declares the raster size where the stream length is meant
ImageObjectStaleLength(objectNumber, img, bytes) ==
    ToString(objectNumber)
    \o " 0 obj\n<< /Type /XObject /Subtype /Image /Width " \o ToString(img.width)
    \o " /Height " \o ToString(img.height)
    \o " /ColorSpace /DeviceRGB /BitsPerComponent 8 /Filter /DCTDecode /Length "
    \o ToString(img.width * img.height) \o " >>\nstream\n"

ImageObject(objectNumber, img, bytes) ==
    ToString(objectNumber)
    \o " 0 obj\n<< /Type /XObject /Subtype /Image /Width " \o ToString(img.width)
    \o " /Height " \o ToString(img.height)
    \o " /ColorSpace /DeviceRGB /BitsPerComponent 8 /Filter /DCTDecode /Length "
    \o ToString(Len(bytes)) \o " >>\nstream\n"

\* a slip that paints the resource name of the next page
ContentObjectPaintsNext(objectNumber, i, img) ==
    "endstream\nendobj\n" \o ToString(objectNumber)
    \o " 0 obj\n<< /Length 44 >>\nstream\nq\n"
    \o ToString(img.width) \o " 0 0 " \o ToString(img.height) \o " 0 0 cm\n/Image"
    \o ToString(i + 1) \o " Do\nQ\nendstream\nendobj\n"

ContentObject(objectNumber, i, img) ==
    "endstream\nendobj\n" \o ToString(objectNumber)
    \o " 0 obj\n<< /Length 44 >>\nstream\nq\n"
    \o ToString(img.width) \o " 0 0 " \o ToString(img.height) \o " 0 0 cm\n/Image"
    \o ToString(i) \o " Do\nQ\nendstream\nendobj\n"

\* the loop over images; xrefPositions[n + 1] is the source's xrefPositions[n]
RECURSIVE AddPages(_, _, _)
AddPages(images, i, st) ==
    IF i >= Len(images) THEN st
    ELSE LET img   == images[i + 1]
             bytes == img.bytes
             n     == st.objectNumber
             c1    == st.pdfContent
             x1    == Append(st.xrefPositions, Len(c1))
             c2    == c1 \o PageObject(n, i, img)
             x2    == Append(x1, Len(c2))
             c3    == c2 \o ImageObject(n + 1, img, bytes)
             x3    == Append(x2, Len(c3) + Len(bytes) + 10)
             c4    == c3 \o ContentObject(n + 2, i, img)
         IN  AddPages(images, i + 1,
                      [pdfContent      |-> c4,
                       xrefPositions   |-> x3,
                       objectNumber    |-> n + 3,
                       imageDataArrays |-> Append(st.imageDataArrays, bytes)])

RECURSIVE XrefEntries(_, _, _)
XrefEntries(xrefPositions, i, objectNumber) ==
    IF i >= objectNumber THEN ""
    ELSE padStart(ToString(xrefPositions[i + 1]), 10, "0") \o " 00000 n\n"
         \o XrefEntries(xrefPositions, i + 1, objectNumber)

\* the slip of declaring the number of objects where one more is meant
TrailerCountsObjects(objectNumber, xrefStart) ==
    "trailer\n<< /Size " \o ToString(objectNumber - 1) \o " /Root 1 0 R >>\nstartxref\n"
    \o ToString(xrefStart) \o "\n%%EOF"

Trailer(objectNumber, xrefStart) ==
    "trailer\n<< /Size " \o ToString(objectNumber) \o " /Root 1 0 R >>\nstartxref\n"
    \o ToString(xrefStart) \o "\n%%EOF"

\* a slip that puts the insertion point before the line end of the stream line
RECURSIVE FindImageDataPositionsBeforeLineEnd(_, _, _)
FindImageDataPositionsBeforeLineEnd(pdfContent, searchPos, acc) ==
    LET streamPos == indexOf(pdfContent, "stream\n", searchPos)
    IN  IF streamPos = -1 THEN acc
        ELSE LET endstreamPos == indexOf(pdfContent, "endstream", streamPos)
             IN  IF endstreamPos = -1 THEN acc
                 ELSE LET objectStart == lastIndexOf(pdfContent, "obj", streamPos)
                          isImage == /\ objectStart # -1
                                     /\ includes(substring(pdfContent, objectStart, streamPos),
                                                 "/DCTDecode")
                      IN  FindImageDataPositionsBeforeLineEnd(
                              pdfContent, endstreamPos + 9,
                              IF isImage
                              THEN Append(acc, [start |-> streamPos + 6, end |-> endstreamPos])
                              ELSE acc)

\* the search for the places where image bytes go
RECURSIVE FindImageDataPositions(_, _, _)
FindImageDataPositions(pdfContent, searchPos, acc) ==
    LET streamPos == indexOf(pdfContent, "stream\n", searchPos)
    IN  IF streamPos = -1 THEN acc
        ELSE LET endstreamPos == indexOf(pdfContent, "endstream", streamPos)
             IN  IF endstreamPos = -1 THEN acc
                 ELSE LET objectStart == lastIndexOf(pdfContent, "obj", streamPos)
                          isImage == /\ objectStart # -1
                                     /\ includes(substring(pdfContent, objectStart, streamPos),
                                                 "/DCTDecode")
                      IN  FindImageDataPositions(
                              pdfContent, endstreamPos + 9,
                              IF isImage
                              THEN Append(acc, [start |-> streamPos + 7, end |-> endstreamPos])
                              ELSE acc)

RECURSIVE SpliceParts(_, _, _, _, _)
SpliceParts(pdfContent, imageDataPositions, imageDataArrays, i, lastIndex) ==
    IF i > Len(imageDataPositions)
    THEN <<substring(pdfContent, lastIndex, Len(pdfContent))>>
    ELSE <<substring(pdfContent, lastIndex, imageDataPositions[i].start),
           imageDataArrays[i]>>
         \o SpliceParts(pdfContent, imageDataPositions, imageDataArrays, i + 1,
                        imageDataPositions[i].end)

\* the bytes of the merged PDF for the decoded images, in order
MergePdfBytes(images) ==
    LET head == PdfPrologue \o KidsRefs(0, Len(images)) \o PageTreeEnd(Len(images))
        st0  == [pdfContent      |-> head,
                 xrefPositions   |-> <<0, indexOf(head, "1 0 obj", 0), indexOf(head, "2 0 obj", 0)>>,
                 objectNumber    |-> 3,
                 imageDataArrays |-> <<>>]
        st   == AddPages(images, 0, st0)
        xrefStart  == Len(st.pdfContent)
        pdfContent == st.pdfContent
                      \o "xref\n0 " \o ToString(st.objectNumber) \o "\n0000000000 65535 f\n"
                      \o XrefEntries(st.xrefPositions, 1, st.objectNumber)
                      \o Trailer(st.objectNumber, xrefStart)
        imageDataPositions == FindImageDataPositions(pdfContent, 0, <<>>)
        finalParts == SpliceParts(pdfContent, imageDataPositions, st.imageDataArrays, 1, 0)
    IN  concat(finalParts)

(***************************************************************************)
(* createPdfFromImage: the single-image path of convertDocument.           *)
(***************************************************************************)
pdfHeader(img, bytes) ==
    "%PDF-1.5\n1 0 obj\n<< /Type /Catalog /Pages 2 0 R >>\nendobj\n2 0 obj\n"
    \o "<< /Type /Pages /Kids [3 0 R] /Count 1 >>\nendobj\n3 0 obj\n"
    \o "<< /Type /Page /Parent 2 0 R /MediaBox [0 0 "
    \o ToString(img.width) \o " " \o ToString(img.height)
    \o "] /Resources << /XObject << /Image 4 0 R >> >> /Contents 5 0 R >>\nendobj\n4 0 obj\n"
    \o "<< /Type /XObject /Subtype /Image /Width " \o ToString(img.width)
    \o " /Height " \o ToString(img.height)
    \o " /ColorSpace /DeviceRGB /BitsPerComponent 8 /Filter /DCTDecode /Length "
    \o ToString(Len(bytes)) \o " >>\nstream\n"

pdfFooter(img, bytes) ==
    "\nendstream\nendobj\n5 0 obj\n<< /Length 44 >>\nstream\nq\n"
    \o ToString(img.width) \o " 0 0 " \o ToString(img.height) \o " 0 0 cm\n/Image Do\nQ\n"
    \o "endstream\nendobj\nxref\n0 6\n0000000000 65535 f\n0000000010 00000 n\n"
    \o "0000000059 00000 n\n0000000116 00000 n\n0000000266 00000 n\n0000000"
    \o ToString(266 + Len(bytes) + 100) \o " 00000 n\ntrailer\n<< /Size 6 /Root 1 0 R >>\n"
    \o "startxref\n0000000" \o ToString(266 + Len(bytes) + 200) \o "\n%%EOF"

SinglePdfBytes(img) == pdfHeader(img, img.bytes) \o img.bytes \o pdfFooter(img, img.bytes)

(***************************************************************************)
(* Decoding and re-encoding (createImageFromArrayBuffer, canvas.toDataURL):*)
(* the host facility.  A stored image's data says whether it decodes and,  *)
(* if so, the pixel size and the JPEG bytes the canvas gives for it.       *)
(***************************************************************************)
RECURSIVE Rep(_, _)
Rep(c, n) == IF n <= 0 THEN "" ELSE c \o Rep(c, n - 1)

ImageBytes == {"a", "b", "c"}

\* a file's data: ok, width, height and bytes are what the browser makes of it
\* as an image (bytes: the JPEG the canvas re-encodes it to); pdf is the file's
\* own content when this program wrote it
GoodA   == [ok |-> TRUE,  width |-> 100, height |-> 200,  bytes |-> Rep("a", 5),   pdf |-> ""]
GoodB   == [ok |-> TRUE,  width |-> 8,   height |-> 1200, bytes |-> Rep("b", 12),  pdf |-> ""]
GoodC   == [ok |-> TRUE,  width |-> 640, height |-> 480,  bytes |-> Rep("c", 101), pdf |-> ""]
Corrupt == [ok |-> FALSE, width |-> 0,   height |-> 0,    bytes |-> "",            pdf |-> ""]

PdfData(content) == [ok |-> FALSE, width |-> 0, height |-> 0, bytes |-> "", pdf |-> content]

\* createImageFromArrayBuffer resolves (img.onload) or rejects (img.onerror)
Decodes(data) == data.ok

Decoded(data) == [width |-> data.width, height |-> data.height, bytes |-> data.bytes]

\* a slip that collects the loaded images last first
RECURSIVE LoadImagesReversed(_)
LoadImagesReversed(imageDocuments) ==
    IF imageDocuments = <<>> THEN <<>>
    ELSE LoadImagesReversed(Tail(imageDocuments))
         \o (IF Decodes(imageDocuments[1].data)
             THEN <<Decoded(imageDocuments[1].data)>> ELSE <<>>)

\* lines 478-487: the images that loaded, in order; a failure is logged and skipped
RECURSIVE LoadImages(_)
LoadImages(imageDocuments) ==
    IF imageDocuments = <<>> THEN <<>>
    ELSE (IF Decodes(imageDocuments[1].data)
          THEN <<Decoded(imageDocuments[1].data)>> ELSE <<>>)
         \o LoadImages(Tail(imageDocuments))

IsImageType(type) == startsWith(type, "image/")

(***************************************************************************)
(* Reading a produced file back: what a PDF reader finds in the bytes.     *)
(***************************************************************************)
DigitValue(c) ==
    CASE c = "0" -> 0 [] c = "1" -> 1 [] c = "2" -> 2 [] c = "3" -> 3 [] c = "4" -> 4
      [] c = "5" -> 5 [] c = "6" -> 6 [] c = "7" -> 7 [] c = "8" -> 8 [] c = "9" -> 9

RECURSIVE ParseInt(_)
ParseInt(s) ==
    IF s = "" THEN 0
    ELSE ParseInt(SubSeq(s, 1, Len(s) - 1)) * 10 + DigitValue(SubSeq(s, Len(s), Len(s)))

\* the text from pos up to (not including) the next occurrence of stop
Upto(s, pos, stop) ==
    LET e == indexOf(s, stop, pos)
    IN  substring(s, pos, IF e = -1 THEN Len(s) ELSE e)

RECURSIVE SkipLines(_, _, _)
SkipLines(s, pos, k) ==
    IF k = 0 THEN pos ELSE SkipLines(s, indexOf(s, "\n", pos) + 1, k - 1)

AllOccurrences(s, pat) == {i \in 0..(Len(s) - Len(pat)) : StartsAt(s, pat, i)}

\* byte index of the xref keyword
XrefKeywordPos(file) == lastIndexOf(file, "\nxref\n", Len(file)) + 1

\* N of the subsection header "0 N"
XrefDeclaredSize(file) == ParseInt(Upto(file, XrefKeywordPos(file) + 7, "\n"))

\* the offset the xref table gives for object n (entry n follows the header and the free entry)
XrefOffset(file, n) ==
    ParseInt(Upto(file, SkipLines(file, XrefKeywordPos(file), n + 2), " "))

StartXrefValue(file) ==
    ParseInt(Upto(file, lastIndexOf(file, "startxref\n", Len(file)) + 10, "\n"))

\* the literal "<n> 0 obj" begins at byte off (at the start of a line)
ObjHeaderAt(file, off, n) ==
    /\ StartsAt(file, ToString(n) \o " 0 obj\n", off)
    /\ off = 0 \/ substring(file, off - 1, off) = "\n"

\* image XObjects, each by the byte index of its "/Subtype /Image"
ImageXObjects(file) == AllOccurrences(file, "/Subtype /Image ")

DeclaredLength(file, p) == ParseInt(Upto(file, indexOf(file, "/Length ", p) + 8, " "))

\* the bytes between the stream line and the endstream keyword of the object at p
StreamPayload(file, p) ==
    LET s == indexOf(file, "stream\n", p) + 7
    IN  substring(file, s, indexOf(file, "endstream", s))

IsImageByte(c) == c \in ImageBytes

ImageByteCount(payload) ==
    Cardinality({i \in 1..Len(payload) : IsImageByte(SubSeq(payload, i, i))})

PageObjectCount(file) == Cardinality(AllOccurrences(file, "/Type /Page "))

KidsCount(file) ==
    LET k == indexOf(file, "/Kids [", 0) + 7
    IN  Cardinality(AllOccurrences(Upto(file, k, "]"), " 0 R"))

DeclaredCount(file) == ParseInt(Upto(file, indexOf(file, "/Count ", 0) + 7, " "))

(***************************************************************************)
(* File names and types (format-utils.ts, convertDocument).                *)
(***************************************************************************)
RECURSIVE split(_, _)
split(s, sep) ==
    LET i == indexOf(s, sep, 0)
    IN  IF i = -1 THEN <<s>>
        ELSE <<substring(s, 0, i)>> \o split(substring(s, i + Len(sep), Len(s)), sep)

getFileNameWithoutExtension(filename) ==
    LET lastDotIndex == lastIndexOf(filename, ".", Len(filename))
    IN  IF lastDotIndex = -1 THEN filename ELSE substring(filename, 0, lastDotIndex)

\* convertDocument, lines 373-375, for the target application/pdf
newFileName(name) ==
    LET parts == split(name, ".")
    IN  join(SubSeq(parts, 1, Len(parts) - 1), ".") \o "." \o split("application/pdf", "/")[2]

CONVERSION_FORMATS(sourceType) ==
    CASE sourceType = "application/pdf" -> {"image/png", "image/jpeg"}
      [] sourceType = "image/png"       -> {"application/pdf", "image/jpeg"}
      [] sourceType = "image/jpeg"      -> {"application/pdf", "image/png"}
      [] sourceType = "image/webp"      -> {"application/pdf", "image/png", "image/jpeg"}
      [] OTHER                          -> {}

\* TRUE when validateConversion returns, FALSE when it throws
validateConversion(sourceType, targetType) == targetType \in CONVERSION_FORMATS(sourceType)

(***************************************************************************)
(* State.  documentList, files and metas are the localforage store (the    *)
(* key documentList, the keys file:<id> and meta:<id>); op is the one      *)
(* operation of the useDocumentConversion hook in flight; request and      *)
(* built serve the builders when they are called on their own.             *)
(***************************************************************************)
VARIABLES documentList, files, metas, nextId, op, history, deleted, budget,
          request, built, isConverting, conversionProgress, calls,
          loaded, shownDocuments, savers, mergers

storeVars == <<documentList, files, metas>>
hookVars == <<documentList, files, metas, nextId, op, history, deleted, budget>>
pdfVars == <<request, built>>
uiVars == <<isConverting, conversionProgress, calls>>
listVars == <<loaded, shownDocuments>>
raceVars == <<savers, mergers>>
vars == <<documentList, files, metas, nextId, op, history, deleted, budget, request, built,
          isConverting, conversionProgress, calls, loaded, shownDocuments, savers, mergers>>

\* The bounds of the exploration: documents the user deletes, writes that
\* localforage rejects, documents the hook has saved after which no further
\* operation is started, documents in one selection, and sources handed to
\* the builders when they are called on their own.
MaxDeletes == 1
MaxFaults == 1
MaxArtifacts == 2
MaxSelect == 3
MaxPages == 3

Put(map, k, v) == [x \in (DOMAIN map) \cup {k} |-> IF x = k THEN v ELSE map[x]]
Remove(map, k) == [x \in (DOMAIN map) \ {k} |-> map[x]]
Range(seq) == {seq[i] : i \in 1..Len(seq)}
Map(seq, F(_)) == [i \in 1..Len(seq) |-> F(seq[i])]

NoMetadata == [isMergedDocument |-> FALSE, isGeneratedDocument |-> FALSE,
               sourceImageIds |-> <<>>, sourceDocumentId |-> 0]

\* mergeImages, lines 974-979
MergeMetadata(imageDocuments) ==
    [isMergedDocument |-> TRUE, isGeneratedDocument |-> FALSE,
     sourceImageIds |-> Map(imageDocuments, LAMBDA doc : doc.id), sourceDocumentId |-> 0]

\* convertDocument, lines 399-405
ConversionMetadata(sourceMeta) ==
    [isMergedDocument |-> FALSE, isGeneratedDocument |-> TRUE,
     sourceImageIds |-> <<>>, sourceDocumentId |-> sourceMeta.id]

\* only merge metadata carries sourceImageIds
HasSourceImageIds(metadata) == metadata.isMergedDocument

(***************************************************************************)
(* The builders as functions of their documents.                           *)
(***************************************************************************)
\* lines 469-491 and 493-646: the merged bytes, or the ConversionError thrown;
\* skipped counts the console.error lines of sources that did not load
mergeImagesToPDFStrict(documents) ==
    LET imageDocuments == SelectSeq(documents, LAMBDA doc : IsImageType(doc.meta.type))
        images == LoadImages(imageDocuments)
    IN  IF Len(images) < Len(imageDocuments) \/ Len(images) = 0
        THEN [path |-> "merge", threw |-> TRUE, bytes |-> "", skipped |-> 0]
        ELSE [path |-> "merge", threw |-> FALSE, bytes |-> MergePdfBytes(images), skipped |-> 0]

mergeImagesToPDF(documents) ==
    LET imageDocuments == SelectSeq(documents, LAMBDA doc : IsImageType(doc.meta.type))
        images == LoadImages(imageDocuments)
        skipped == Len(imageDocuments) - Len(images)
    IN  IF Len(imageDocuments) = 0 \/ Len(images) = 0
        THEN [path |-> "merge", threw |-> TRUE, bytes |-> "", skipped |-> skipped]
        ELSE [path |-> "merge", threw |-> FALSE, bytes |-> MergePdfBytes(images),
              skipped |-> skipped]

\* a slip that resolves with an empty image where img.onerror should reject
createPdfFromImageNoReject(sourceData) ==
    [path |-> "single", threw |-> FALSE,
     bytes |-> SinglePdfBytes(Decoded(sourceData)), skipped |-> 0]

\* lines 129-243
createPdfFromImage(sourceData) ==
    IF ~Decodes(sourceData)
    THEN [path |-> "single", threw |-> TRUE, bytes |-> "", skipped |-> 0]
    ELSE [path |-> "single", threw |-> FALSE,
          bytes |-> SinglePdfBytes(Decoded(sourceData)), skipped |-> 0]

\* convertDocument up to the converted blob, lines 368-391, target application/pdf
convertToPdfBlob(sourceData, sourceMeta) ==
    IF ~validateConversion(sourceMeta.type, "application/pdf")
    THEN [path |-> "single", threw |-> TRUE, bytes |-> "", skipped |-> 0]
    ELSE IF sourceMeta.type = "application/pdf"
    THEN [path |-> "single", threw |-> FALSE, bytes |-> sourceData.pdf, skipped |-> 0]
    ELSE IF IsImageType(sourceMeta.type) THEN createPdfFromImage(sourceData)
    ELSE [path |-> "single", threw |-> TRUE, bytes |-> "", skipped |-> 0]

(***************************************************************************)
(* The storage module (saveDocument, getAllDocuments, getDocument,         *)
(* deleteDocument) over localforage.                                       *)
(***************************************************************************)
\* where a saveDocument call's writes stop: at none of them, or at the one
\* localforage rejects
SaveOutcomes == {"ok", "file", "meta", "list"}

NewMeta(id, file) == [id |-> id, name |-> file.name, type |-> file.type, metadata |-> NoMetadata]

\* lines 251-278 and 354-363: the store after saveDocument(file) under id
saveDocument(id, file, failAt) ==
    [files |-> IF failAt = "file" THEN files ELSE Put(files, id, file.data),
     metas |-> IF failAt \in {"file", "meta"} THEN metas ELSE Put(metas, id, NewMeta(id, file)),
     documentList |-> IF failAt = "ok" /\ id \notin Range(documentList)
                      THEN Append(documentList, id) ELSE documentList]

\* lines 281-296
getAllDocuments ==
    Map(SelectSeq(documentList, LAMBDA id : id \in DOMAIN metas), LAMBDA id : metas[id])

\* lines 299-308: getDocument(id) is not null
HasDocument(id) == id \in DOMAIN metas /\ id \in DOMAIN files

\* the caller's copy of a document's meta, as the document list shows it
CallerMeta(id) == [id |-> id, name |-> metas[id].name, type |-> metas[id].type]

Listed == {id \in Range(documentList) : id \in DOMAIN metas}

DistinctSeqs(S, lo, hi) ==
    {q \in UNION {[1..n -> S] : n \in lo..hi} : \A i, j \in 1..Len(q) : i # j => q[i] # q[j]}

(***************************************************************************)
(* useDocumentConversion: the checks for an existing artifact.             *)
(***************************************************************************)
\* ids are compared as the source's localeCompare orders them
SortIds(ids) == SortSeq(ids, LAMBDA a, b : a < b)

\* a slip that compares the selection in the caller's order
callerOrderIdsOf(imageDocuments) == Map(imageDocuments, LAMBDA doc : doc.id)

\* mergeImages, lines 887
sortedImageIdsOf(imageDocuments) == SortIds(Map(imageDocuments, LAMBDA doc : doc.id))

\* a slip that stops at the length test
SameLength(sortedImageIds, sourceIds) == Len(sourceIds) = Len(sortedImageIds)

\* mergeImages, lines 913-923
isExactMatch(sortedImageIds, sourceIds) ==
    /\ Len(sourceIds) = Len(sortedImageIds)
    /\ LET sortedSourceIds == SortIds(sourceIds)
       IN  \A index \in 1..Len(sortedImageIds) : sortedImageIds[index] = sortedSourceIds[index]

\* mergeImages, lines 898-937: some existing merged PDF records the same ids
ExistingMerge(sortedImageIds, allDocuments) ==
    \E i \in 1..Len(allDocuments) :
        LET doc == allDocuments[i]
        IN  /\ doc.type = "application/pdf"
            /\ startsWith(doc.name, "merged-images-") \/ doc.metadata.isMergedDocument
            /\ HasSourceImageIds(doc.metadata)
            /\ isExactMatch(sortedImageIds, doc.metadata.sourceImageIds)

\* getExistingPDFDocument, lines 706-717: it is not null
ExistingPDF(document, allDocuments) ==
    \E i \in 1..Len(allDocuments) :
        /\ allDocuments[i].type = "application/pdf"
        /\ getFileNameWithoutExtension(allDocuments[i].name)
             = getFileNameWithoutExtension(document.name)

(***************************************************************************)
(* One hook operation.  kind and pc say which callback runs and where it   *)
(* stands; docs are the caller's documents after the first filter, todo    *)
(* the ones a batch goes on to convert and cur the loop index; pending is  *)
(* the File about to be saved with the metadata to attach, saved the id    *)
(* saveDocument gave it; events lists, in program order, what the run did. *)
(***************************************************************************)
NoFile == [name |-> "", type |-> "", data |-> Corrupt, metadata |-> NoMetadata, source |-> 0]

IdleOp == [kind |-> "none", pc |-> "idle", docs |-> <<>>, todo |-> <<>>, cur |-> 0,
           pending |-> NoFile, saved |-> 0, result |-> FALSE, error |-> "",
           events |-> <<>>, given |-> 0, skipped |-> 0]

Event(e, id, dup) == [e |-> e, id |-> id, dup |-> dup]

Began(kind, docs) == [IdleOp EXCEPT !.kind = kind, !.pc = "check", !.docs = docs, !.cur = 1]

Rejected(kind, error) == [IdleOp EXCEPT !.kind = kind, !.pc = "done", !.error = error]

Failed(o, error) == [o EXCEPT !.pc = "done", !.result = FALSE, !.error = error]

Succeeded(o) == [o EXCEPT !.pc = "done", !.result = TRUE]

\* a slip that goes on after a duplicate was found
IgnoreDuplicate(o, found, error) == [o EXCEPT !.pc = "fetch"]

\* the early return of a check: toast.info and return false, or go on
AfterCheck(o, found, error) == IF found THEN Failed(o, error) ELSE [o EXCEPT !.pc = "fetch"]

Spend(what) == [budget EXCEPT ![what] = @ + 1]

Fault(failed) == IF failed THEN [budget EXCEPT !.faults = @ + 1] ELSE budget

CanFail == budget.faults < MaxFaults

(***************************************************************************)
(* What the user does besides: uploads a file, deletes a listed document.  *)
(***************************************************************************)
UploadFiles ==
    <<[name |-> "a.png", type |-> "image/png",       data |-> GoodA],
      [name |-> "b.jpg", type |-> "image/jpeg",      data |-> Corrupt],
      [name |-> "d.png", type |-> "image/png",       data |-> GoodB],
      [name |-> "a.pdf", type |-> "application/pdf", data |-> PdfData("%PDF")]>>

\* handleFileUpload: saveDocument(file).  The library is filled first, the
\* files in this order, before anything is converted or deleted
Upload ==
    /\ op.pc = "idle"
    /\ budget.saves = 0 /\ budget.deletes = 0
    /\ nextId <= Len(UploadFiles)
    /\ LET file == UploadFiles[nextId]
           st == saveDocument(nextId, file, "ok")
       IN  /\ files' = st.files
           /\ metas' = st.metas
           /\ documentList' = st.documentList
    /\ nextId' = nextId + 1
    /\ UNCHANGED budget
    /\ UNCHANGED <<op, history, deleted, request, built, uiVars, listVars, raceVars>>

\* handleDeleteDocument: deleteDocument(id), lines 311-321 and 366-370
Delete(id) ==
    /\ op.pc # "done"
    /\ budget.deletes < MaxDeletes
    /\ id \in Listed
    /\ files' = Remove(files, id)
    /\ metas' = Remove(metas, id)
    /\ documentList' = SelectSeq(documentList, LAMBDA docId : docId # id)
    /\ deleted' = deleted \cup {id}
    /\ budget' = Spend("deletes")
    /\ UNCHANGED <<nextId, op, history, request, built, uiVars, listVars, raceVars>>

(***************************************************************************)
(* mergeImages, lines 875-1008.                                            *)
(***************************************************************************)
StartMerge(selection) ==
    /\ op.pc = "idle"
    /\ budget.saves < MaxArtifacts
    /\ LET documents == Map(selection, CallerMeta)
           imageDocuments == SelectSeq(documents, LAMBDA doc : IsImageType(doc.type))
       IN  op' = IF Len(imageDocuments) < 2
                 THEN Rejected("merge", "Please select at least 2 images to merge")
                 ELSE Began("merge", imageDocuments)
    /\ UNCHANGED <<storeVars, nextId, history, deleted, budget, request, built, uiVars, listVars, raceVars>>

MergeCheck ==
    /\ op.kind = "merge" /\ op.pc = "check"
    /\ LET found == ExistingMerge(sortedImageIdsOf(op.docs), getAllDocuments)
           o == [op EXCEPT !.events = Append(@, Event("check", 0, found))]
       IN  op' = AfterCheck(o, found, "A PDF with these exact images already exists")
    /\ UNCHANGED <<storeVars, nextId, history, deleted, budget, request, built, uiVars, listVars, raceVars>>

\* lines 951-983 with mergeImagesToPDF up to the File that is to be saved
MergeBuild ==
    /\ op.kind = "merge" /\ op.pc = "fetch"
    /\ LET present == SelectSeq(op.docs, LAMBDA doc : HasDocument(doc.id))
           docsWithData == Map(present, LAMBDA doc : [meta |-> doc, data |-> files[doc.id]])
           fetches == Map(op.docs, LAMBDA doc : Event("fetch", doc.id, FALSE))
           decodes == Map(present, LAMBDA doc : Event("decode", doc.id, FALSE))
           encodes == Map(SelectSeq(present, LAMBDA doc : Decodes(files[doc.id])),
                          LAMBDA doc : Event("encode", doc.id, FALSE))
           r == mergeImagesToPDF(docsWithData)
       IN  IF Len(docsWithData) < 2
           THEN op' = Failed([op EXCEPT !.events = @ \o fetches],
                             "Not enough valid images to merge")
           ELSE IF r.threw
           THEN op' = Failed([op EXCEPT !.events = @ \o fetches \o decodes,
                                        !.given = Len(docsWithData), !.skipped = r.skipped],
                             "Failed to load any images for merging")
           ELSE op' = [op EXCEPT !.pc = "save",
                                 !.events = @ \o fetches \o decodes \o encodes,
                                 !.given = Len(docsWithData), !.skipped = r.skipped,
                                 !.pending = [name |-> "merged-images-" \o ToString(nextId) \o ".pdf",
                                              type |-> "application/pdf",
                                              data |-> PdfData(r.bytes),
                                              metadata |-> MergeMetadata(op.docs),
                                              source |-> 0]]
    /\ UNCHANGED <<storeVars, nextId, history, deleted, budget, request, built, uiVars, listVars, raceVars>>

(***************************************************************************)
(* convertToPDF, lines 720-781, and batchConvertToPDF, lines 784-872.      *)
(***************************************************************************)
StartConvert(id) ==
    /\ op.pc = "idle"
    /\ budget.saves < MaxArtifacts
    /\ id \in Listed
    /\ op' = IF CallerMeta(id).type = "application/pdf"
             THEN Rejected("convert", "Document is already a PDF")
             ELSE [Began("convert", <<CallerMeta(id)>>) EXCEPT !.todo = <<CallerMeta(id)>>]
    /\ UNCHANGED <<storeVars, nextId, history, deleted, budget, request, built, uiVars, listVars, raceVars>>

ConvertCheck ==
    /\ op.kind = "convert" /\ op.pc = "check"
    /\ LET found == ExistingPDF(op.docs[1], getAllDocuments)
           o == [op EXCEPT !.events = Append(@, Event("check", op.docs[1].id, found))]
       IN  op' = AfterCheck(o, found, "A PDF version already exists")
    /\ UNCHANGED <<storeVars, nextId, history, deleted, budget, request, built, uiVars, listVars, raceVars>>

StartBatch(selection) ==
    /\ op.pc = "idle"
    /\ budget.saves < MaxArtifacts
    /\ LET documents == Map(selection, CallerMeta)
           docsToConvert == SelectSeq(documents, LAMBDA doc : doc.type # "application/pdf")
       IN  op' = IF Len(docsToConvert) = 0
                 THEN Rejected("batch", "All selected documents are already PDFs")
                 ELSE Began("batch", docsToConvert)
    /\ UNCHANGED <<storeVars, nextId, history, deleted, budget, request, built, uiVars, listVars, raceVars>>

\* lines 797-809: one turn of the loop over docsToConvert, and what follows the last
BatchCheck ==
    /\ op.kind = "batch" /\ op.pc = "check"
    /\ LET doc == op.docs[op.cur]
           found == ExistingPDF(doc, getAllDocuments)
           todo == IF found THEN op.todo ELSE Append(op.todo, doc)
           o == [op EXCEPT !.events = Append(@, Event("check", doc.id, found)),
                           !.todo = todo]
       IN  op' = IF op.cur < Len(op.docs) THEN [o EXCEPT !.cur = @ + 1]
                 ELSE IF Len(todo) = 0
                 THEN Failed(o, "PDF versions of all selected documents already exist")
                 ELSE [o EXCEPT !.pc = "fetch", !.cur = 1]
    /\ UNCHANGED <<storeVars, nextId, history, deleted, budget, request, built, uiVars, listVars, raceVars>>

\* the next document of the loop, or the end of the operation
Advance(o) ==
    IF o.kind = "batch" /\ o.cur < Len(o.todo)
    THEN [o EXCEPT !.pc = "fetch", !.cur = @ + 1, !.pending = NoFile, !.saved = 0]
    ELSE Succeeded(o)

\* a slip that saves the fetched bytes under the new name before they are
\* validated and converted
ConvertBuildSavesFirst ==
    /\ op.kind \in {"convert", "batch"} /\ op.pc = "fetch"
    /\ LET doc == op.todo[op.cur]
           early == [name |-> newFileName(doc.name), type |-> "application/pdf",
                     data |-> IF HasDocument(doc.id) THEN files[doc.id] ELSE Corrupt,
                     metadata |-> ConversionMetadata(doc), source |-> doc.id]
           st == saveDocument(nextId, early, "ok")
       IN  /\ files' = st.files
           /\ metas' = st.metas
           /\ documentList' = st.documentList
           /\ op' = Failed([op EXCEPT !.events = Append(@, Event("fetch", doc.id, FALSE))],
                           "Failed to create PDF from image")
    /\ nextId' = nextId + 1
    /\ UNCHANGED <<history, deleted, budget, request, built, uiVars, listVars, raceVars>>

\* getDocument and convertDocument up to the File that is to be saved
ConvertBuild ==
    /\ op.kind \in {"convert", "batch"} /\ op.pc = "fetch"
    /\ LET doc == op.todo[op.cur]
           fetched == [op EXCEPT !.events = Append(@, Event("fetch", doc.id, FALSE))]
           decoded == [fetched EXCEPT !.events = Append(@, Event("decode", doc.id, FALSE))]
           r == convertToPdfBlob(files[doc.id], doc)
       IN  IF ~HasDocument(doc.id)
           THEN op' = IF op.kind = "convert" THEN Failed(fetched, "Document not found")
                      ELSE Advance(fetched)
           ELSE IF r.threw
           THEN op' = Failed(decoded, "Failed to create PDF from image")
           ELSE op' = [decoded EXCEPT !.pc = "save",
                                      !.events = Append(@, Event("encode", doc.id, FALSE)),
                                      !.pending = [name |-> newFileName(doc.name),
                                                   type |-> "application/pdf",
                                                   data |-> PdfData(r.bytes),
                                                   metadata |-> ConversionMetadata(doc),
                                                   source |-> doc.id]]
    /\ UNCHANGED <<storeVars, nextId, history, deleted, budget, request, built, uiVars, listVars, raceVars>>

(***************************************************************************)
(* Persisting: saveDocument(file), then the metadata written over the      *)
(* saved meta (lines 394-409 and 656-664).                                 *)
(***************************************************************************)
Save(failAt) ==
    /\ op.pc = "save"
    /\ failAt # "ok" => CanFail
    /\ LET st == saveDocument(nextId, op.pending, failAt)
           o  == [op EXCEPT !.events = Append(@, Event("persist", op.pending.source, FALSE))]
       IN  /\ files' = st.files
           /\ metas' = st.metas
           /\ documentList' = st.documentList
           /\ op' = IF failAt = "ok" THEN [o EXCEPT !.pc = "provenance", !.saved = nextId]
                    ELSE Failed([o EXCEPT !.saved = nextId], "PersistFailure")
    /\ nextId' = nextId + 1
    /\ budget' = [Fault(failAt # "ok") EXCEPT !.saves = @ + 1]
    /\ UNCHANGED <<history, deleted, request, built, uiVars, listVars, raceVars>>

Provenance(written) ==
    /\ op.pc = "provenance"
    /\ ~written => CanFail
    /\ LET savedDoc == [NewMeta(op.saved, op.pending) EXCEPT !.metadata = op.pending.metadata]
           sources == IF op.kind = "merge" THEN Range(Map(op.docs, LAMBDA doc : doc.id))
                      ELSE {op.pending.source}
       IN  IF written
           THEN /\ metas' = Put(metas, op.saved, savedDoc)
                /\ op' = Advance(op)
                /\ history' = history \cup
                       {[kind |-> op.kind, artifact |-> op.saved, sources |-> sources]}
           ELSE /\ op' = Failed(op, "PersistFailure")
                /\ UNCHANGED <<metas, history>>
    /\ budget' = Fault(~written)
    /\ UNCHANGED <<documentList, files, nextId, deleted, request, built, uiVars, listVars, raceVars>>

\* the promise settles and the caller has the result
Return ==
    /\ op.pc = "done"
    /\ op' = IdleOp
    /\ UNCHANGED <<storeVars, nextId, history, deleted, budget, request, built, uiVars, listVars, raceVars>>

(***************************************************************************)
(* The state one useDocumentConversion instance shows: isConverting and    *)
(* conversionProgress, shared by every call of convertToPDF,               *)
(* batchConvertToPDF and mergeImages made on it.  calls[c] is one such     *)
(* call past its duplicate check: running until its promise settles, with  *)
(* its progressInterval (interval) and the setTimeout of its finally block *)
(* (timeout).  overlapped and decreased record what the caller of c saw    *)
(* while c ran: another call running, the progress going down; final is    *)
(* the progress shown when c returned true.                                *)
(***************************************************************************)
MaxCalls == 2

IdleCall == [pc |-> "idle", kind |-> "none", result |-> FALSE, interval |-> FALSE,
             timeout |-> FALSE, overlapped |-> FALSE, decreased |-> FALSE, final |-> 0]

Init ==
    /\ documentList = <<>>
    /\ files = <<>>
    /\ metas = <<>>
    /\ nextId = 1
    /\ op = IdleOp
    /\ history = {}
    /\ deleted = {}
    /\ budget = [deletes |-> 0, faults |-> 0, saves |-> 0]
    /\ request = <<>>
    /\ built = [path |-> "none", threw |-> FALSE, bytes |-> "", skipped |-> 0]
    /\ isConverting = FALSE
    /\ conversionProgress = 0
    /\ calls = [c \in 1..MaxCalls |-> IdleCall]
    /\ loaded = <<>>
    /\ shownDocuments = <<>>
    /\ savers = <<>>
    /\ mergers = <<>>

Next ==
    \/ Upload
    \/ \E id \in Listed : Delete(id)
    \/ \E selection \in DistinctSeqs(Listed, 1, MaxSelect) : StartMerge(selection)
    \/ MergeCheck
    \/ MergeBuild
    \/ \E id \in Listed : StartConvert(id)
    \/ ConvertCheck
    \/ \E selection \in DistinctSeqs(Listed, 1, MaxSelect) : StartBatch(selection)
    \/ BatchCheck
    \/ ConvertBuild
    \/ \E failAt \in SaveOutcomes : Save(failAt)
    \/ \E written \in BOOLEAN : Provenance(written)
    \/ Return

Spec == Init /\ [][Next]_vars

(***************************************************************************)
(* The builders called on their own: mergeImagesToPDF on a list of         *)
(* documents, createPdfFromImage on one.  request holds the documents,     *)
(* built what the call produced.                                           *)
(***************************************************************************)
SampleData == {GoodA, GoodB, GoodC, Corrupt}

\* the declared types of the sample documents: one of the supported input
\* set, one outside it that the browser still loads as an image
SampleTypes == {"image/png", "image/gif"}

Requests ==
    UNION {{[i \in 1..n |-> [meta |-> [id |-> i, name |-> "image.png", type |-> t[i]],
                             data |-> d[i]]] :
                d \in [1..n -> SampleData], t \in [1..n -> SampleTypes]} : n \in 1..MaxPages}

NotBuilt == [path |-> "none", threw |-> FALSE, bytes |-> "", skipped |-> 0]

CallMerge ==
    /\ built.path = "none"
    /\ built' = mergeImagesToPDF(request)
    /\ UNCHANGED <<hookVars, request, uiVars, listVars, raceVars>>

CallConvert ==
    /\ built.path = "none"
    /\ Len(request) = 1
    /\ built' = createPdfFromImage(request[1].data)
    /\ UNCHANGED <<hookVars, request, uiVars, listVars, raceVars>>

InitPdf ==
    /\ documentList = <<>>
    /\ files = <<>>
    /\ metas = <<>>
    /\ nextId = 1
    /\ op = IdleOp
    /\ history = {}
    /\ deleted = {}
    /\ budget = [deletes |-> 0, faults |-> 0, saves |-> 0]
    /\ request \in Requests
    /\ built = NotBuilt
    /\ isConverting = FALSE
    /\ conversionProgress = 0
    /\ calls = [c \in 1..MaxCalls |-> IdleCall]
    /\ loaded = <<>>
    /\ shownDocuments = <<>>
    /\ savers = <<>>
    /\ mergers = <<>>

NextPdf == CallMerge \/ CallConvert

SpecPdf == InitPdf /\ [][NextPdf]_vars

ProgressCap == 90

ProgressDone == 100

CallKinds == {"convert", "batch", "merge"}

Running(c) == calls[c].pc = "running"

\* prev + Math.random() * 10 in convertToPDF, * 5 in the other two, in whole points
TickSteps(kind) == IF kind = "convert" THEN {3, 9} ELSE {4}

\* the updater of the interval, lines 739-742
TickValue(prev, step) == IF prev + step > ProgressCap THEN ProgressCap ELSE prev + step

\* what the running calls see of a write of conversionProgress made by by
Observe(by, value) ==
    [c \in 1..MaxCalls |->
        IF c # by /\ Running(c) /\ value < conversionProgress
        THEN [calls[c] EXCEPT !.decreased = TRUE] ELSE calls[c]]

\* lines 733-743: setIsConverting(true), setConversionProgress(0), setInterval
StartCall(c, kind) ==
    /\ calls[c].pc = "idle"
    /\ \A d \in 1..(c - 1) : calls[d].pc # "idle"
    /\ isConverting' = TRUE
    /\ conversionProgress' = 0
    /\ LET others == \E d \in 1..MaxCalls : Running(d)
           seen == [d \in 1..MaxCalls |->
                       IF Running(d) THEN [Observe(c, 0)[d] EXCEPT !.overlapped = TRUE]
                       ELSE calls[d]]
       IN  calls' = [seen EXCEPT ![c] = [IdleCall EXCEPT !.pc = "running", !.kind = kind,
                                                       !.interval = TRUE,
                                                       !.overlapped = others]]
    /\ UNCHANGED <<hookVars, pdfVars, listVars, raceVars>>

\* the interval of call c fires
Tick(c, step) ==
    /\ calls[c].interval
    /\ step \in TickSteps(calls[c].kind)
    /\ LET value == TickValue(conversionProgress, step)
       IN  /\ conversionProgress' = value
           /\ calls' = Observe(0, value)
    /\ UNCHANGED <<isConverting, hookVars, pdfVars, listVars, raceVars>>

\* lines 760-761: clearInterval, setConversionProgress(100)
FinishValue(prev) == ProgressDone

\* lines 759-770 and 775-779: the call succeeds
Succeed(c) ==
    /\ Running(c)
    /\ conversionProgress' = FinishValue(conversionProgress)
    /\ calls' = [Observe(c, FinishValue(conversionProgress)) EXCEPT
                    ![c] = [calls[c] EXCEPT !.pc = "returned", !.result = TRUE,
                                            !.interval = FALSE, !.timeout = TRUE,
                                            !.final = FinishValue(conversionProgress)]]
    /\ UNCHANGED <<isConverting, hookVars, pdfVars, listVars, raceVars>>

\* lines 771-779: the call throws; the catch does not clear the interval
Fail(c) ==
    /\ Running(c)
    /\ calls' = [calls EXCEPT ![c] = [@ EXCEPT !.pc = "returned", !.timeout = TRUE]]
    /\ UNCHANGED <<isConverting, conversionProgress, hookVars, pdfVars, listVars, raceVars>>

\* lines 775-779: the timer of the finally block, 500 ms after the call ended
ResetTimeout(c) ==
    /\ calls[c].timeout
    /\ isConverting' = FALSE
    /\ conversionProgress' = 0
    /\ calls' = [Observe(c, 0) EXCEPT ![c] = [calls[c] EXCEPT !.timeout = FALSE]]
    /\ UNCHANGED <<hookVars, pdfVars, listVars, raceVars>>

InitUi ==
    /\ documentList = <<>>
    /\ files = <<>>
    /\ metas = <<>>
    /\ nextId = 1
    /\ op = IdleOp
    /\ history = {}
    /\ deleted = {}
    /\ budget = [deletes |-> 0, faults |-> 0, saves |-> 0]
    /\ request = <<>>
    /\ built = NotBuilt
    /\ isConverting = FALSE
    /\ conversionProgress = 0
    /\ calls = [c \in 1..MaxCalls |-> IdleCall]
    /\ loaded = <<>>
    /\ shownDocuments = <<>>
    /\ savers = <<>>
    /\ mergers = <<>>

NextUi ==
    \/ \E c \in 1..MaxCalls, kind \in CallKinds : StartCall(c, kind)
    \/ \E c \in 1..MaxCalls, step \in 0..9 : Tick(c, step)
    \/ \E c \in 1..MaxCalls : Succeed(c)
    \/ \E c \in 1..MaxCalls : Fail(c)
    \/ \E c \in 1..MaxCalls : ResetTimeout(c)

SpecUi == InitUi /\ [][NextUi]_vars

DecodedCount == Len(SelectSeq(request, LAMBDA doc : Decodes(doc.data)))

Produced == built.path # "none" /\ ~built.threw

ObjectNumbers(file) == 1..(XrefDeclaredSize(file) - 1)

\* C1: in every produced PDF the xref offset of every object n is the byte
\* index of the first byte of "<n> 0 obj".
OffsetCorrectness ==
    Produced =>
        \A n \in ObjectNumbers(built.bytes) :
            ObjHeaderAt(built.bytes, XrefOffset(built.bytes, n), n)

\* C2: every image XObject's declared /Length is the number of JPEG bytes
\* between its stream line and its endstream keyword.
LengthCorrectness ==
    Produced =>
        \A p \in ImageXObjects(built.bytes) :
            LET payload == StreamPayload(built.bytes, p)
                length  == DeclaredLength(built.bytes, p)
            IN  /\ ImageByteCount(payload) = length
                /\ ImageByteCount(SubSeq(payload, 1, length)) = length

LengthWitness ==
    /\ Produced
    /\ built.path = "merge"
    /\ Cardinality({DeclaredLength(built.bytes, p) : p \in ImageXObjects(built.bytes)}) = 3

\* C3: a merge of k decoded sources has k page objects, k Kids and /Count k.
PageCount ==
    (Produced /\ built.path = "merge") =>
        /\ PageObjectCount(built.bytes) = DecodedCount
        /\ KidsCount(built.bytes) = DecodedCount
        /\ DeclaredCount(built.bytes) = DecodedCount

PageCountWitness ==
    /\ Produced
    /\ built.path = "merge"
    /\ Len(request) = 3
    /\ DecodedCount = 2
    /\ PageObjectCount(built.bytes) = 2

(***************************************************************************)
(* The hook's operations, read off op, history and the store.              *)
(***************************************************************************)
IdsOf(docs) == {docs[i].id : i \in 1..Len(docs)}

Kinds(events) == {events[i].e : i \in 1..Len(events)}

DuplicateMerge == "A PDF with these exact images already exists"

\* the merges that succeeded before and whose artifact is still stored
LiveMerges == {h \in history : h.kind = "merge" /\ h.artifact \notin deleted}

\* C4: a merge of a set of images whose merge succeeded before, the artifact
\* not deleted since, is reported as a duplicate whatever the order of the
\* selection, and goes on to no fetch, build or save.
MergeOrderIndependence ==
    (op.kind = "merge" /\ \E h \in LiveMerges : h.sources = IdsOf(op.docs) /\ h.artifact # op.saved)
        => /\ op.pc \in {"check", "done"}
           /\ op.pc = "done" =>
                /\ ~op.result
                /\ op.error = DuplicateMerge
                /\ op.saved = 0
                /\ Kinds(op.events) = {"check"}

MergeOrderIndependenceWitness ==
    /\ op.kind = "merge" /\ op.pc = "done" /\ op.error = DuplicateMerge
    /\ \E h \in LiveMerges :
          /\ h.sources = IdsOf(op.docs)
          /\ h.artifact \in DOMAIN metas
          /\ metas[h.artifact].metadata.sourceImageIds # Map(op.docs, LAMBDA doc : doc.id)

MergeInput == SelectSeq(op.docs, LAMBDA doc : HasDocument(doc.id))

DecodableInput == SelectSeq(MergeInput, LAMBDA doc : Decodes(files[doc.id]))

\* C6: a merge handed at least two images of which some but not all decode
\* goes on to save a PDF with one page per image that decoded, logs one
\* skip per image that did not, and does not fail for them.
PartialFailureMerge ==
    /\ [][(/\ op.kind = "merge" /\ op.pc = "fetch" /\ op' # op
           /\ Len(MergeInput) >= 2
           /\ Len(DecodableInput) > 0
           /\ Len(DecodableInput) < Len(MergeInput))
          => /\ op'.pc = "save"
             /\ op'.skipped = Len(MergeInput) - Len(DecodableInput)
             /\ PageObjectCount(op'.pending.data.pdf) = Len(DecodableInput)]_vars
    /\ []((op.kind = "merge" /\ op.pc = "done" /\ op.skipped > 0 /\ op.skipped < op.given)
            => (op.result \/ op.error = "PersistFailure"))

PartialFailureMergeWitness ==
    /\ op.kind = "merge" /\ op.pc = "done" /\ op.result
    /\ op.given >= 2
    /\ op.skipped > 0
    /\ PageObjectCount(op.pending.data.pdf) = op.given - op.skipped
    /\ op.saved \in Listed

\* C7: convertToPDF on a source image that does not decode returns false and
\* calls saveDocument for nothing.
UndecodableConversion ==
    (/\ op.kind = "convert" /\ op.pc = "done"
     /\ Len(op.docs) = 1
     /\ HasDocument(op.docs[1].id)
     /\ ~Decodes(files[op.docs[1].id]))
        => /\ ~op.result
           /\ op.saved = 0
           /\ "persist" \notin Kinds(op.events)
           /\ op.pending = NoFile

UndecodableConversionWitness ==
    /\ op.kind = "convert" /\ op.pc = "done"
    /\ op.error = "Failed to create PDF from image"
    /\ "decode" \in Kinds(op.events)
    /\ Len(op.docs) = 1
    /\ HasDocument(op.docs[1].id)
    /\ ~Decodes(files[op.docs[1].id])
    /\ nextId \notin DOMAIN files \cup DOMAIN metas

\* C8: after an operation whose persisting failed the store holds neither
\* bytes nor meta nor a list entry for the artifact, and no stored PDF made
\* by the hook is without its provenance metadata.
PersistAtomicity ==
    (op.pc = "done" /\ op.error = "PersistFailure")
        => /\ op.saved \notin DOMAIN files
           /\ op.saved \notin DOMAIN metas
           /\ op.saved \notin Range(documentList)

\* C9: startxref holds the byte offset of the xref keyword in the final file.
StartXrefCorrectness ==
    Produced => StartXrefValue(built.bytes) = XrefKeywordPos(built.bytes)

\* the events of the run in program order, as positions
EventsAt(kinds) == {i \in 1..Len(op.events) : op.events[i].e \in kinds}

ChecksFirst ==
    \A i \in EventsAt({"fetch", "decode", "encode", "persist"}) :
        \A j \in EventsAt({"check"}) : j < i

DuplicateConversion == "A PDF version already exists"

\* the stored documents whose provenance says they were converted from id
ConversionsOf(id) ==
    {i \in 1..Len(getAllDocuments) :
        /\ getAllDocuments[i].metadata.isGeneratedDocument
        /\ getAllDocuments[i].metadata.sourceDocumentId = id}

\* C11: convertToPDF skips a source exactly when a stored artifact's
\* provenance names it as the single source of a conversion; a PDF of another
\* source, or one without conversion provenance, never makes it skip.
ConversionDuplicateByProvenance ==
    /\ (op.kind = "convert" /\ op.pc = "done" /\ op.error = DuplicateConversion)
          => ConversionsOf(op.docs[1].id) # {}
    /\ (op.kind = "convert" /\ op.pc \in {"fetch", "save", "provenance"})
          => ConversionsOf(op.docs[1].id) = {}

\* C12: mergeImagesToPDF called with fewer than two sources throws before
\* it builds anything.
MergeMinimumInput ==
    (built.path = "merge" /\ Len(request) < 2) => built.threw

\* a source type that validateConversion accepts for the target application/pdf
SupportedSource(type) == validateConversion(type, "application/pdf")

\* C13: a merge request in which some source's declared type is outside the
\* supported input set is rejected as a whole: mergeImagesToPDF throws and
\* builds nothing.
UnsupportedFormatRejected ==
    (built.path = "merge" /\ \E i \in 1..Len(request) : ~SupportedSource(request[i].meta.type))
        => built.threw

\* C14: from its start until it returns, a call that runs with no other
\* call running beside it never sees conversionProgress go down, and a call
\* that returns true returns with it at 100.
ProgressMonotone ==
    \A c \in 1..MaxCalls :
        ~calls[c].overlapped =>
            /\ ~calls[c].decreased
            /\ (calls[c].pc = "returned" /\ calls[c].result) => calls[c].final = ProgressDone

\* C16: while a call runs beside another call of the same hook instance,
\* isConverting stays true and the conversionProgress it sees does not go
\* down, whatever the other call does.
ConcurrentCallsIsolated ==
    \A c \in 1..MaxCalls :
        (Running(c) /\ calls[c].overlapped) => (isConverting /\ ~calls[c].decreased)

\* C15: no step a hook operation takes before its persisting step (its
\* validation, its duplicate check, its fetches, its decoding and building,
\* and every ending reached from them) changes documentList or any file: or
\* meta: entry, or takes an id.
NoMutationBeforePersisting ==
    [][(op' # op /\ op.pc \notin {"save", "provenance"})
          => (UNCHANGED storeVars /\ nextId' = nextId)]_vars

NoMutationBeforePersistingWitness ==
    /\ op.kind = "merge" /\ op.pc = "done"
    /\ op.error = "Not enough valid images to merge"
    /\ "fetch" \in Kinds(op.events)
    /\ "persist" \notin Kinds(op.events)
    /\ budget.saves = 0
    /\ DOMAIN files \cup DOMAIN metas \subseteq 1..Len(UploadFiles)

\* byte index of the header of object n (n >= 2: it begins a line)
ObjectStart(file, n) == indexOf(file, "\n" \o ToString(n) \o " 0 obj\n", 0) + 1

\* the object numbers the Kids array lists, in its order
RECURSIVE KidsOf(_)
KidsOf(text) ==
    IF indexOf(text, " 0 R", 0) = -1 THEN <<>>
    ELSE <<ParseInt(Upto(text, 0, " "))>>
         \o KidsOf(substring(text, Min({indexOf(text, " 0 R", 0) + 5, Len(text)}), Len(text)))

Kids(file) == KidsOf(Upto(file, indexOf(file, "/Kids [", 0) + 7, "]"))

\* <<w, h>> of the MediaBox [0 0 w h] of page object n
PageMediaBox(file, n) ==
    LET p == indexOf(file, "/MediaBox [0 0 ", ObjectStart(file, n)) + 15
        w == Upto(file, p, " ")
        h == Upto(file, p + Len(w) + 1, "]")
    IN  <<ParseInt(w), ParseInt(h)>>

\* the object number page object n names as its image XObject
PageImageObject(file, n) ==
    LET p == indexOf(file, "/XObject << /Image", ObjectStart(file, n)) + 18
        name == Upto(file, p, " ")
    IN  ParseInt(Upto(file, p + Len(name) + 1, " "))

PageImagePayload(file, n) == StreamPayload(file, ObjectStart(file, PageImageObject(file, n)))

DecodedRequest == SelectSeq(request, LAMBDA doc : Decodes(doc.data))

\* C17: the i-th page of a merged PDF, in Kids order, has the MediaBox
\* [0 0 w h] and the image bytes of the i-th source that decoded, in the
\* caller's order.
PageOrder ==
    (Produced /\ built.path = "merge") =>
        LET kids == Kids(built.bytes)
        IN  /\ Len(kids) = Len(DecodedRequest)
            /\ \A i \in 1..Len(kids) :
                  /\ PageMediaBox(built.bytes, kids[i])
                       = <<DecodedRequest[i].data.width, DecodedRequest[i].data.height>>
                  /\ PageImagePayload(built.bytes, kids[i]) = DecodedRequest[i].data.bytes

PageOrderWitness ==
    /\ Produced /\ built.path = "merge"
    /\ Len(request) = 3
    /\ request[1].data = Corrupt /\ request[2].data = GoodB /\ request[3].data = GoodA
    /\ Len(Kids(built.bytes)) = 2
    /\ PageMediaBox(built.bytes, Kids(built.bytes)[1]) = <<GoodB.width, GoodB.height>>
    /\ PageImagePayload(built.bytes, Kids(built.bytes)[2]) = GoodA.bytes

\* the ids saveDocument gave to files of the hook: the uploads come first
GeneratedIds == (nextId - budget.saves)..(nextId - 1)

\* C18: every generated artifact that getAllDocuments returns carries its
\* provenance metadata (the generated or merged flag and its source ids).
ProvenanceWithArtifact ==
    \A i \in 1..Len(getAllDocuments) :
        getAllDocuments[i].id \in GeneratedIds
            => (getAllDocuments[i].metadata.isMergedDocument
                \/ getAllDocuments[i].metadata.isGeneratedDocument)

\* ---------------------------------------------------------------------------
\* The document list of useDocuments (src/app/lib/hooks/useDocuments.ts).
\* loaded is what getAllDocuments returns; shownDocuments is the documents
\* state of the hook.
\* ---------------------------------------------------------------------------

\* The bounds of the stored sets: how many documents are stored, and the
\* largest creation time; a createdAt of 0 also stands for a missing one,
\* which the comparator reads as 0 (createdAt || 0).
MaxListed == 3
MaxCreatedAt == 2

ListNames == {"a.png", "merged-images-1.pdf"}
ListMetadata == {NoMetadata,
                 [NoMetadata EXCEPT !.isMergedDocument = TRUE],
                 [NoMetadata EXCEPT !.isGeneratedDocument = TRUE]}

\* the stored documents getAllDocuments can return, each under its own id
StoredLists ==
    UNION {{[i \in 1..n |-> [id |-> i, name |-> nm[i], metadata |-> md[i], createdAt |-> at[i]]] :
                nm \in [1..n -> ListNames], md \in [1..n -> ListMetadata],
                at \in [1..n -> 0..MaxCreatedAt]} : n \in 0..MaxListed}

\* lines 39-42: aIsGenerated / bIsGenerated
isGenerated(doc) ==
    \/ startsWith(doc.name, "merged-images-")
    \/ doc.metadata.isMergedDocument
    \/ doc.metadata.isGeneratedDocument

\* a slip that orders every document oldest first, whatever its group
compareByDateOnly(a, b) == a.createdAt - b.createdAt

\* lines 38-56: the comparator handed to sort
compareDocs(a, b) ==
    IF isGenerated(a) /\ ~isGenerated(b) THEN 1
    ELSE IF ~isGenerated(a) /\ isGenerated(b) THEN 0 - 1
    ELSE IF isGenerated(a) /\ isGenerated(b) THEN a.createdAt - b.createdAt
    ELSE b.createdAt - a.createdAt

\* Array.prototype.sort is stable: an element goes after every element that
\* does not compare greater than it
RECURSIVE insertSorted(_, _)
insertSorted(sorted, doc) ==
    IF sorted = <<>> THEN <<doc>>
    ELSE IF compareDocs(sorted[Len(sorted)], doc) > 0
         THEN insertSorted(SubSeq(sorted, 1, Len(sorted) - 1), doc) \o <<sorted[Len(sorted)]>>
         ELSE sorted \o <<doc>>

\* line 38: [...docs].sort(comparator)
RECURSIVE sortedDocs(_)
sortedDocs(docs) ==
    IF docs = <<>> THEN <<>>
    ELSE insertSorted(sortedDocs(SubSeq(docs, 1, Len(docs) - 1)), docs[Len(docs)])

\* lines 20-66: loadDocuments, storage answering
loadDocuments ==
    /\ shownDocuments' = sortedDocs(loaded)
    /\ UNCHANGED <<loaded, hookVars, pdfVars, uiVars, raceVars>>

\* lines 24, 60-62: loadDocuments, getAllDocuments throwing: the list stays cleared
loadDocumentsFails ==
    /\ shownDocuments' = <<>>
    /\ UNCHANGED <<loaded, hookVars, pdfVars, uiVars, raceVars>>

\* lines 124-128: removeDocument drops the document from storage and from the list
removeDocument(id) ==
    /\ \E i \in 1..Len(shownDocuments) : shownDocuments[i].id = id
    /\ shownDocuments' = SelectSeq(shownDocuments, LAMBDA doc : doc.id # id)
    /\ loaded' = SelectSeq(loaded, LAMBDA doc : doc.id # id)
    /\ UNCHANGED <<hookVars, pdfVars, uiVars, raceVars>>

InitList ==
    /\ documentList = <<>>
    /\ files = <<>>
    /\ metas = <<>>
    /\ nextId = 1
    /\ op = IdleOp
    /\ history = {}
    /\ deleted = {}
    /\ budget = [deletes |-> 0, faults |-> 0, saves |-> 0]
    /\ request = <<>>
    /\ built = NotBuilt
    /\ isConverting = FALSE
    /\ conversionProgress = 0
    /\ calls = [c \in 1..MaxCalls |-> IdleCall]
    /\ loaded \in StoredLists
    /\ shownDocuments = <<>>
    /\ savers = <<>>
    /\ mergers = <<>>

NextList ==
    \/ loadDocuments
    \/ loadDocumentsFails
    \/ \E id \in 1..MaxListed : removeDocument(id)

SpecList == InitList /\ [][NextList]_vars

XrefEntryLine(file, n) ==
    Upto(file, SkipLines(file, XrefKeywordPos(file), n + 2), "\n") \o "\n"

AllDigits(s) ==
    \A i \in 1..Len(s) :
        SubSeq(s, i, i) \in {"0", "1", "2", "3", "4", "5", "6", "7", "8", "9"}

\* C20: every xref entry line of a produced PDF, the free entry of object 0
\* included, is exactly 20 bytes long and begins with a 10-digit zero-padded
\* decimal offset followed by a space.
XrefEntryWidth ==
    Produced =>
        \A n \in 0..(XrefDeclaredSize(built.bytes) - 1) :
            LET line == XrefEntryLine(built.bytes, n)
            IN  /\ Len(line) = 20
                /\ AllDigits(SubSeq(line, 1, 10))
                /\ SubSeq(line, 11, 11) = " "

\* the "<n> 0 obj" headers of a produced file, each at the start of a line
ObjectHeaders(file) ==
    {i \in AllOccurrences(file, " 0 obj\n") :
        \E n \in 1..(3 * MaxPages + 2) : ObjHeaderAt(file, i - Len(ToString(n)), n)}

ObjectCount(file) == Cardinality(ObjectHeaders(file))

\* the xref section: from the xref keyword up to the trailer keyword
XrefSection(file) ==
    substring(file, XrefKeywordPos(file), indexOf(file, "trailer\n", XrefKeywordPos(file)))

TrailerSize(file) ==
    ParseInt(Upto(file, indexOf(file, "/Size ", XrefKeywordPos(file)) + 6, " "))

\* C21: a produced PDF of k pages has N = 2 + 3k objects; its xref
\* subsection header is "0 <N+1>", its trailer /Size is N+1, and the xref
\* section is the header, the free entry and exactly one in-use entry per
\* object number 1..N, each holding a recorded (numeric) position.
XrefShape ==
    Produced =>
        LET file == built.bytes
            N    == ObjectCount(file)
        IN  /\ N = 2 + 3 * PageObjectCount(file)
            /\ XrefDeclaredSize(file) = N + 1
            /\ TrailerSize(file) = N + 1
            /\ Cardinality(AllOccurrences(XrefSection(file), " 00000 n\n")) = N
            /\ Len(XrefSection(file))
                   = Len("xref\n0 " \o ToString(N + 1) \o "\n") + (N + 1) * Len(XrefEntryLine(file, 0))
            /\ XrefEntryLine(file, 0) = "0000000000 65535 f\n"
            /\ \A n \in 1..N :
                   /\ AllDigits(SubSeq(XrefEntryLine(file, n), 1, 10))
                   /\ SubSeq(XrefEntryLine(file, n), 11, Len(XrefEntryLine(file, n))) = " 00000 n\n"

XrefShapeWitness ==
    /\ Produced
    /\ built.path = "merge"
    /\ PageObjectCount(built.bytes) = MaxPages
    /\ XrefDeclaredSize(built.bytes) = 3 * MaxPages + 3

\* the byte indexes at which a header "<n> 0 obj" begins a line
HeaderPositions(file, n) ==
    {i \in AllOccurrences(file, ToString(n) \o " 0 obj\n") : ObjHeaderAt(file, i, n)}

\* the text of object n, from its header up to its endobj
ObjectBody(file, n) ==
    LET s == CHOOSE i \in HeaderPositions(file, n) : TRUE
    IN  Upto(file, s, "endobj")

\* the resource name page object n declares for its image, and the object
\* number it gives as its content stream
PageResourceName(file, n) ==
    LET body == ObjectBody(file, n)
    IN  Upto(body, indexOf(body, "/XObject << /", 0) + 13, " ")

PageContents(file, n) ==
    LET body == ObjectBody(file, n)
    IN  ParseInt(Upto(body, indexOf(body, "/Contents ", 0) + 10, " "))

PageObjectNumbers(file) ==
    {n \in 1..ObjectCount(file) : includes(ObjectBody(file, n), "/Type /Page ")}

\* C22: in a merged PDF the object numbers are 1..N without gaps and in
\* file order; object 1 is the Catalog pointing to object 2, the page tree;
\* Kids lists exactly the page objects in ascending order; page object n
\* names image XObject n+1 as its resource and n+2 as its content stream,
\* and that stream paints the resource name the page declares.
ObjectGraph ==
    (Produced /\ built.path = "merge") =>
        LET file == built.bytes
            N    == ObjectCount(file)
            kids == Kids(file)
        IN  /\ \A n \in 1..N : Cardinality(HeaderPositions(file, n)) = 1
            /\ \A n \in 1..(N - 1) :
                   \A i \in HeaderPositions(file, n), j \in HeaderPositions(file, n + 1) : i < j
            /\ includes(ObjectBody(file, 1), "/Type /Catalog /Pages 2 0 R")
            /\ includes(ObjectBody(file, 2), "/Type /Pages ")
            /\ Range(kids) = PageObjectNumbers(file)
            /\ \A i \in 1..(Len(kids) - 1) : kids[i] < kids[i + 1]
            /\ \A n \in PageObjectNumbers(file) :
                   /\ PageImageObject(file, n) = n + 1
                   /\ includes(ObjectBody(file, n + 1), "/Type /XObject /Subtype /Image ")
                   /\ PageContents(file, n) = n + 2
                   /\ includes(StreamPayload(file, ObjectStart(file, n + 2)),
                               "\n/" \o PageResourceName(file, n) \o " Do\n")

ObjectGraphWitness ==
    /\ Produced /\ built.path = "merge"
    /\ Kids(built.bytes) = <<3, 6, 9>>
    /\ PageResourceName(built.bytes, 9) = "Image2"
    /\ PageContents(built.bytes, 9) = 11

\* page content streams, each by the byte index of its dictionary (the only
\* dictionaries that open with /Length)
ContentStreams(file) == AllOccurrences(file, "<< /Length ")

\* C28: the /Length a page content stream declares is the byte count of its
\* payload (q, the cm line, the Do line, Q, with their line ends; the line
\* end before endstream may or may not be counted).
ContentLengthCorrectness ==
    Produced =>
        \A p \in ContentStreams(built.bytes) :
            LET payload == StreamPayload(built.bytes, p)
            IN  DeclaredLength(built.bytes, p) \in {Len(payload), Len(payload) - 1}

\* the text mergeImagesToPDF holds before the image bytes are inserted
MergePdfText(images) ==
    LET head == PdfPrologue \o KidsRefs(0, Len(images)) \o PageTreeEnd(Len(images))
        st   == AddPages(images, 0,
                         [pdfContent      |-> head,
                          xrefPositions   |-> <<0, indexOf(head, "1 0 obj", 0),
                                                indexOf(head, "2 0 obj", 0)>>,
                          objectNumber    |-> 3,
                          imageDataArrays |-> <<>>])
    IN  st.pdfContent
        \o "xref\n0 " \o ToString(st.objectNumber) \o "\n0000000000 65535 f\n"
        \o XrefEntries(st.xrefPositions, 1, st.objectNumber)
        \o Trailer(st.objectNumber, Len(st.pdfContent))

\* a produced file with the bytes of its first i image streams cut out again
RECURSIVE WithoutImageBytes(_, _, _)
WithoutImageBytes(file, images, i) ==
    IF i = 0 THEN file
    ELSE LET s == indexOf(file, "stream\n", ObjectStart(file, 4 + 3 * (i - 1))) + 7
         IN  WithoutImageBytes(substring(file, 0, s)
                                   \o substring(file, s + Len(images[i].bytes), Len(file)),
                               images, i - 1)

\* C29: the search finds one insertion point per decoded image, in page
\* order; the i-th image's bytes stand directly between the stream line and
\* the endstream keyword of the i-th image XObject, and the rest of the text
\* is what was written, nothing altered or dropped.
SpliceAligned ==
    (Produced /\ built.path = "merge") =>
        LET images == LoadImages(SelectSeq(request, LAMBDA doc : IsImageType(doc.meta.type)))
            text   == MergePdfText(images)
            found  == FindImageDataPositions(text, 0, <<>>)
        IN  /\ Len(found) = Len(images)
            /\ \A i \in 1..Len(found) :
                   /\ found[i].start = found[i].end
                   /\ substring(text, found[i].start - 7, found[i].start) = "stream\n"
                   /\ StartsAt(text, "endstream", found[i].end)
                   /\ i > 1 => found[i - 1].end < found[i].start
                   /\ includes(substring(text, lastIndexOf(text, " 0 obj\n", found[i].start),
                                         found[i].start),
                               "/Width " \o ToString(images[i].width) \o " /Height "
                               \o ToString(images[i].height) \o " ")
            /\ \A i \in 1..Len(images) :
                   LET p == ObjectStart(built.bytes, 4 + 3 * (i - 1))
                       s == indexOf(built.bytes, "stream\n", p) + 7
                   IN  substring(built.bytes, s, s + Len(images[i].bytes) + 9)
                           = images[i].bytes \o "endstream"
            /\ WithoutImageBytes(built.bytes, images, Len(images)) = text

SpliceAlignedWitness ==
    /\ Produced /\ built.path = "merge"
    /\ Len(FindImageDataPositions(MergePdfText(LoadImages(request)), 0, <<>>)) = MaxPages
    /\ Cardinality({request[i].data : i \in 1..Len(request)}) = MaxPages

\* the ids of the sources whose images a run encoded into pages
EncodedIds(o) == {o.events[i].id : i \in {j \in 1..Len(o.events) : o.events[j].e = "encode"}}

\* C25: the sourceImageIds a merged artifact records are exactly the ids of
\* the sources whose images are its pages: as many ids as the file has
\* pages, and none of a source that was missing or did not decode.
ProvenanceMatchesPages ==
    (/\ op.kind = "merge" /\ op.pc = "done" /\ op.result
     /\ op.saved \in DOMAIN metas /\ op.saved \in DOMAIN files)
        => LET recorded == metas[op.saved].metadata.sourceImageIds
           IN  /\ Range(recorded) = EncodedIds(op)
               /\ Len(recorded) = PageObjectCount(files[op.saved].pdf)

\* ---------------------------------------------------------------------------
\* convertToPDF over file names of several shapes: the library holds one
\* uploaded image, under one of these names, and the user converts it again
\* and again, or deletes a document.
\* ---------------------------------------------------------------------------
SourceNames == {"a.png", "scan", "a.b.png", "photo.final.v2.jpeg", ".png"}

SourceTypes == {"image/png", "image/jpeg"}

InitNames ==
    /\ \E name \in SourceNames, type \in SourceTypes :
          /\ files = [id \in {1} |-> GoodA]
          /\ metas = [id \in {1} |-> NewMeta(1, [name |-> name, type |-> type])]
          /\ documentList = <<1>>
    /\ nextId = 2
    /\ op = IdleOp
    /\ history = {}
    /\ deleted = {}
    /\ budget = [deletes |-> 0, faults |-> 0, saves |-> 0]
    /\ request = <<>>
    /\ built = NotBuilt
    /\ isConverting = FALSE
    /\ conversionProgress = 0
    /\ calls = [c \in 1..MaxCalls |-> IdleCall]
    /\ loaded = <<>>
    /\ shownDocuments = <<>>
    /\ savers = <<>>
    /\ mergers = <<>>

NextNames ==
    \/ \E id \in Listed : StartConvert(id)
    \/ ConvertCheck
    \/ ConvertBuild
    \/ \E failAt \in SaveOutcomes : Save(failAt)
    \/ \E written \in BOOLEAN : Provenance(written)
    \/ Return
    \/ \E id \in Listed : Delete(id)

SpecNames == InitNames /\ [][NextNames]_vars

\* the conversions of a source that succeeded before and whose artifact is
\* still stored
LiveConversions(id) ==
    {h \in history : h.kind = "convert" /\ h.sources = {id} /\ h.artifact \notin deleted}

\* C26: once convertToPDF of a source has succeeded and its artifact is
\* still stored, a later convertToPDF of that source stops at the check and
\* creates no artifact, whatever the shape of the source's file name.
ConversionIdempotent ==
    (/\ op.kind = "convert" /\ Len(op.docs) = 1
     /\ \E h \in LiveConversions(op.docs[1].id) : h.artifact # op.saved)
        => /\ op.pc \in {"check", "done"}
           /\ op.pc = "done" => (~op.result /\ op.saved = 0)

\* The hook's state under the scheduling of the browser: a timer that is set
\* fires, and a call that runs ends, one way or the other.
SpecUiLive ==
    /\ SpecUi
    /\ \A c \in 1..MaxCalls :
          /\ WF_vars(\E step \in 0..9 : Tick(c, step))
          /\ WF_vars(Succeed(c) \/ Fail(c))
          /\ WF_vars(ResetTimeout(c))

HookIdle ==
    /\ ~isConverting
    /\ conversionProgress = 0
    /\ \A c \in 1..MaxCalls : ~calls[c].interval

\* C27: after a call of the hook has ended, by success or by failure, the
\* hook eventually reaches and then stays in the state isConverting = false,
\* conversionProgress = 0, with no progress timer still running.
ReturnsToIdle ==
    \A c \in 1..MaxCalls : [](calls[c].pc = "returned" => <>[]HookIdle)

\* ---------------------------------------------------------------------------
\* saveDocument calls running at once, as handleFileUpload starts them with
\* Promise.all (documents.tsx line 100).  savers[p] is one call: where it
\* stands between its awaits, the id it made, and the list it read in
\* addToDocumentList.
\* ---------------------------------------------------------------------------
MaxSavers == 3

\* the file each call saves and the id it makes for it (line 253)
SaverFile(p) == [name |-> "f" \o ToString(p) \o ".png", type |-> "image/png", data |-> GoodA]

NewSaver(p) == [pc |-> "file", id |-> p, list |-> <<>>]

\* line 269: localforage.setItem(`file:${id}`, fileData)
SaverSetFile(p) ==
    /\ savers[p].pc = "file"
    /\ files' = Put(files, savers[p].id, SaverFile(p).data)
    /\ savers' = [savers EXCEPT ![p].pc = "meta"]
    /\ UNCHANGED <<documentList, metas, nextId, op, history, deleted, budget,
                   pdfVars, uiVars, listVars, mergers>>

\* line 272: localforage.setItem(`meta:${id}`, meta)
SaverSetMeta(p) ==
    /\ savers[p].pc = "meta"
    /\ metas' = Put(metas, savers[p].id, NewMeta(savers[p].id, SaverFile(p)))
    /\ savers' = [savers EXCEPT ![p].pc = "read"]
    /\ UNCHANGED <<documentList, files, nextId, op, history, deleted, budget,
                   pdfVars, uiVars, listVars, mergers>>

\* lines 355 and 341-344: addToDocumentList reads the stored list
SaverReadList(p) ==
    /\ savers[p].pc = "read"
    /\ savers' = [savers EXCEPT ![p].pc = "write", ![p].list = documentList]
    /\ UNCHANGED <<hookVars, pdfVars, uiVars, listVars, mergers>>

\* lines 358-362: push the id onto the list that was read and store it
SaverWriteList(p) ==
    /\ savers[p].pc = "write"
    /\ documentList' = IF savers[p].id \in Range(savers[p].list) THEN documentList
                       ELSE Append(savers[p].list, savers[p].id)
    /\ savers' = [savers EXCEPT ![p].pc = "done"]
    /\ UNCHANGED <<files, metas, nextId, op, history, deleted, budget,
                   pdfVars, uiVars, listVars, mergers>>

\* handleFileUpload, lines 100-101: files.map(file => saveDocument(file))
InitSave ==
    /\ documentList = <<>>
    /\ files = <<>>
    /\ metas = <<>>
    /\ nextId = 1
    /\ op = IdleOp
    /\ history = {}
    /\ deleted = {}
    /\ budget = [deletes |-> 0, faults |-> 0, saves |-> 0]
    /\ request = <<>>
    /\ built = NotBuilt
    /\ isConverting = FALSE
    /\ conversionProgress = 0
    /\ calls = [c \in 1..MaxCalls |-> IdleCall]
    /\ loaded = <<>>
    /\ shownDocuments = <<>>
    /\ \E n \in 1..MaxSavers : savers = [p \in 1..n |-> NewSaver(p)]
    /\ mergers = <<>>

NextSave ==
    \/ \E p \in 1..Len(savers) : SaverSetFile(p)
    \/ \E p \in 1..Len(savers) : SaverSetMeta(p)
    \/ \E p \in 1..Len(savers) : SaverReadList(p)
    \/ \E p \in 1..Len(savers) : SaverWriteList(p)

SpecSave == InitSave /\ [][NextSave]_vars

AllSaved == savers # <<>> /\ \A p \in 1..Len(savers) : savers[p].pc = "done"

\* C24: when all the saveDocument calls started together have completed,
\* the stored documentList holds the id of every saved document.
NoLostListUpdates ==
    AllSaved => \A p \in 1..Len(savers) : savers[p].id \in Range(documentList)

\* ---------------------------------------------------------------------------
\* mergeImages calls running at once on a library of uploaded images.
\* mergers[m] is one call: where it stands between its awaits, the image
\* documents it was given, the File it built, and the id saveDocument gave.
\* ---------------------------------------------------------------------------
MaxMergers == 2

\* the library: the first three upload files, one of which does not decode
MergeLibrary == 1..3

MergeSelections == DistinctSeqs(MergeLibrary, 2, 3)

NewMerger(selection) ==
    [pc |-> "check", docs |-> Map(selection, LAMBDA id : [id |-> id, name |-> UploadFiles[id].name,
                                                           type |-> UploadFiles[id].type]),
     pending |-> NoFile, saved |-> 0, result |-> FALSE]

\* lines 893-937: getAllDocuments and the search for a merged PDF of the same ids
MergerCheck(m) ==
    /\ mergers[m].pc = "check"
    /\ mergers' = [mergers EXCEPT ![m].pc =
                       IF ExistingMerge(sortedImageIdsOf(mergers[m].docs), getAllDocuments)
                       THEN "done" ELSE "build"]
    /\ UNCHANGED <<hookVars, pdfVars, uiVars, listVars, savers>>

\* lines 951-983 with mergeImagesToPDF up to the File that is to be saved
MergerBuild(m) ==
    /\ mergers[m].pc = "build"
    /\ LET present == SelectSeq(mergers[m].docs, LAMBDA doc : HasDocument(doc.id))
           docsWithData == Map(present, LAMBDA doc : [meta |-> doc, data |-> files[doc.id]])
           r == mergeImagesToPDF(docsWithData)
       IN  mergers' = IF Len(docsWithData) < 2 \/ r.threw
                      THEN [mergers EXCEPT ![m].pc = "done"]
                      ELSE [mergers EXCEPT
                               ![m].pc = "save",
                               ![m].pending = [name |-> "merged-images-" \o ToString(m) \o ".pdf",
                                               type |-> "application/pdf",
                                               data |-> PdfData(r.bytes),
                                               metadata |-> MergeMetadata(mergers[m].docs),
                                               source |-> 0]]
    /\ UNCHANGED <<hookVars, pdfVars, uiVars, listVars, savers>>

\* line 656: saveDocument(mergedFile)
MergerSave(m) ==
    /\ mergers[m].pc = "save"
    /\ LET st == saveDocument(nextId, mergers[m].pending, "ok")
       IN  /\ files' = st.files
           /\ metas' = st.metas
           /\ documentList' = st.documentList
    /\ mergers' = [mergers EXCEPT ![m].pc = "provenance", ![m].saved = nextId]
    /\ nextId' = nextId + 1
    /\ UNCHANGED <<op, history, deleted, budget, pdfVars, uiVars, listVars, savers>>

\* lines 659-664: the metadata written over the saved meta; the call returns true
MergerProvenance(m) ==
    /\ mergers[m].pc = "provenance"
    /\ metas' = Put(metas, mergers[m].saved,
                    [NewMeta(mergers[m].saved, mergers[m].pending)
                        EXCEPT !.metadata = mergers[m].pending.metadata])
    /\ mergers' = [mergers EXCEPT ![m].pc = "done", ![m].result = TRUE]
    /\ UNCHANGED <<documentList, files, nextId, op, history, deleted, budget,
                   pdfVars, uiVars, listVars, savers>>

InitMerges ==
    /\ documentList = [id \in MergeLibrary |-> id]
    /\ files = [id \in MergeLibrary |-> UploadFiles[id].data]
    /\ metas = [id \in MergeLibrary |-> NewMeta(id, UploadFiles[id])]
    /\ nextId = 4
    /\ op = IdleOp
    /\ history = {}
    /\ deleted = {}
    /\ budget = [deletes |-> 0, faults |-> 0, saves |-> 0]
    /\ request = <<>>
    /\ built = NotBuilt
    /\ isConverting = FALSE
    /\ conversionProgress = 0
    /\ calls = [c \in 1..MaxCalls |-> IdleCall]
    /\ loaded = <<>>
    /\ shownDocuments = <<>>
    /\ savers = <<>>
    /\ mergers \in [1..MaxMergers -> {NewMerger(selection) : selection \in MergeSelections}]

NextMerges ==
    \/ \E m \in 1..MaxMergers : MergerCheck(m)
    \/ \E m \in 1..MaxMergers : MergerBuild(m)
    \/ \E m \in 1..MaxMergers : MergerSave(m)
    \/ \E m \in 1..MaxMergers : MergerProvenance(m)

SpecMerges == InitMerges /\ [][NextMerges]_vars

\* the stored merged artifacts that record the set of ids as their sources
MergedArtifactsOf(ids) ==
    {i \in 1..Len(getAllDocuments) :
        /\ getAllDocuments[i].metadata.isMergedDocument
        /\ Range(getAllDocuments[i].metadata.sourceImageIds) = ids}

\* C23: when two merges of the same set of source ids, started together,
\* have both finished, at most one merged artifact recording that set is
\* stored.
ConcurrentMergeOnce ==
    (/\ \A m \in 1..MaxMergers : mergers[m].pc = "done"
     /\ IdsOf(mergers[1].docs) = IdsOf(mergers[2].docs))
        => Cardinality(MergedArtifactsOf(IdsOf(mergers[1].docs))) <= 1

\* ---------------------------------------------------------------------------
\* The storage module under sequential use: saveDocument and deleteDocument
\* calls one after the other, each run to its end.  A call ends early when
\* localforage rejects one of its writes: saveDocument then rejects,
\* deleteDocument catches the error and returns false.  history records the
\* ids whose saveDocument resolved, deleted those whose deleteDocument
\* returned true.
\* ---------------------------------------------------------------------------
MaxStored == 3

\* where a deleteDocument call's removals stop
DeleteOutcomes == {"ok", "file", "meta", "list"}

\* lines 311-321 and 366-370: the store after deleteDocument(id)
deleteDocument(id, failAt) ==
    [files |-> IF failAt = "file" THEN files ELSE Remove(files, id),
     metas |-> IF failAt \in {"file", "meta"} THEN metas ELSE Remove(metas, id),
     documentList |-> IF failAt = "ok"
                      THEN SelectSeq(documentList, LAMBDA docId : docId # id)
                      ELSE documentList]

StoreSave(failAt) ==
    /\ nextId <= MaxStored
    /\ failAt # "ok" => CanFail
    /\ LET st == saveDocument(nextId, UploadFiles[nextId], failAt)
       IN  /\ files' = st.files
           /\ metas' = st.metas
           /\ documentList' = st.documentList
    /\ history' = IF failAt = "ok"
                  THEN history \cup {[kind |-> "upload", artifact |-> nextId, sources |-> {}]}
                  ELSE history
    /\ nextId' = nextId + 1
    /\ budget' = Fault(failAt # "ok")
    /\ UNCHANGED <<op, deleted, pdfVars, uiVars, listVars, raceVars>>

StoreDelete(id, failAt) ==
    /\ id < nextId
    /\ budget.deletes < MaxStored
    /\ failAt # "ok" => CanFail
    /\ LET st == deleteDocument(id, failAt)
       IN  /\ files' = st.files
           /\ metas' = st.metas
           /\ documentList' = st.documentList
    /\ deleted' = IF failAt = "ok" THEN deleted \cup {id} ELSE deleted
    /\ budget' = [Fault(failAt # "ok") EXCEPT !.deletes = @ + 1]
    /\ UNCHANGED <<nextId, op, history, pdfVars, uiVars, listVars, raceVars>>

NextStore ==
    \/ \E failAt \in SaveOutcomes : StoreSave(failAt)
    \/ \E id \in 1..MaxStored, failAt \in DeleteOutcomes : StoreDelete(id, failAt)

SpecStore == Init /\ [][NextStore]_vars

SavedIds == {h.artifact : h \in history}

\* C30: between calls, documentList has no id twice and holds exactly the
\* ids saved and not deleted since; every listed id has its file and its
\* meta entry; every deleted id has neither and getAllDocuments does not
\* return it.
StorageConsistency ==
    /\ \A i, j \in 1..Len(documentList) : documentList[i] = documentList[j] => i = j
    /\ Range(documentList) = SavedIds \ deleted
    /\ \A id \in Range(documentList) : HasDocument(id)
    /\ \A id \in deleted :
          /\ id \notin DOMAIN files
          /\ id \notin DOMAIN metas
          /\ \A i \in 1..Len(getAllDocuments) : getAllDocuments[i].id # id

====
